---- MODULE Spec2Model ----
(***************************************************************************)
(* A model of the JSON lexer of serializers/src/json/lexer.rs (JsonLexer:  *)
(* json_text, index; next_token, reset and the scanners they call) and of  *)
(* the snake game of src/main.rs (SnakeRenderPipeline: update and the      *)
(* movement step it runs every `speed` updates).                           *)
(*                                                                         *)
(* Bytes are one-character strings, the text is a sequence of bytes.  The  *)
(* cursor is the 0-based byte offset of the source, so the byte at cursor  *)
(* i is json[i + 1].  An indexing panic (json[i] with i >= len) aborts the *)
(* program: it is recorded in `crashed`, after which no operation runs.    *)
(***************************************************************************)
EXTENDS Integers, Sequences, FiniteSets, TLC

VARIABLES json_text, index, token, crashed, op, scan, prev,
          pos, movement_direction, last_movement_direction, update_count,
          next_segment_pos, game_over, step_dir

\* the fields of SnakeRenderPipeline that the game logic uses, and step_dir,
\* the direction of the latest movement step (<<0, 0>> before the first)
snakeVars ==
    <<pos, movement_direction, last_movement_direction, update_count,
      next_segment_pos, game_over, step_dir>>

vars == <<json_text, index, token, crashed, op, scan, prev, snakeVars>>

(***************************************************************************)
(* Bounds of the model.                                                    *)
(***************************************************************************)
\* the mixed texts are concatenations of at most MaxPieces fragments
MaxPieces == 3
\* number texts hold at most MaxNumLen bytes
MaxNumLen == 5
\* string texts hold at most MaxStrLen bytes
MaxStrLen == 5
\* a caller makes at most MaxCalls next_token calls between two resets
MaxCalls == 5
\* symbol texts hold at most MaxSymLen bytes
MaxSymLen == 3
\* the snake's board has 2 * GridHalf + 1 tiles a side; the game's
\* tile_size of 0.08 gives 12 (lower_range of spawn_segment)
GridHalf == 1
\* the snake grows to MaxSegments segments at most
MaxSegments == 4
\* updates per movement step; the game's speed is 9
Speed == 2
\* updates followed after the update count has passed the speed
MaxIdle == 2

(***************************************************************************)
(* Tokens (TokenType, ReserveCode).                                        *)
(***************************************************************************)
Undefined == [type |-> "Undefined", value |-> "none"]
Null == [type |-> "Null", value |-> "none"]
Number(v) == [type |-> "Number", value |-> v]
Float(v) == [type |-> "Float", value |-> v]
Boolean(v) == [type |-> "Boolean", value |-> v]
String(v) == [type |-> "String", value |-> v]
Reserve(code) == [type |-> "Reserve", value |-> code]

(***************************************************************************)
(* Byte access and byte classes.                                           *)
(***************************************************************************)
\* json[i] for an in-bounds 0-based offset i
Byte(json, i) == json[i + 1]

\* &json[a..b]: the bytes at offsets a .. b-1
Slice(json, a, b) == SubSeq(json, a + 1, b)

Digits == {"0", "1", "2", "3", "4", "5", "6", "7", "8", "9"}

\* (ch as char).is_numeric(), on the ASCII bytes
is_numeric(ch) == ch \in Digits

\* u8::is_ascii_whitespace: space, tab, line feed, form feed, carriage return
is_ascii_whitespace(ch) == ch \in {" ", "\t", "\n", "\f", "\r"}

is_eof(i, size) == i >= size

is_str_start(c) == c = "\""

DigitVal(ch) ==
    CASE ch = "0" -> 0 [] ch = "1" -> 1 [] ch = "2" -> 2 [] ch = "3" -> 3
      [] ch = "4" -> 4 [] ch = "5" -> 5 [] ch = "6" -> 6 [] ch = "7" -> 7
      [] ch = "8" -> 8 [] ch = "9" -> 9

(***************************************************************************)
(* skip_whitespace: the offset of the first byte at or after i that is not *)
(* ASCII whitespace, or size.                                              *)
(***************************************************************************)
\* skip_whitespace that skips one whitespace byte at most
skip_whitespace_once(json, i, size) ==
    IF ~is_eof(i, size) /\ is_ascii_whitespace(Byte(json, i))
    THEN i + 1
    ELSE i

RECURSIVE skip_whitespace(_, _, _)
skip_whitespace(json, i, size) ==
    IF ~is_eof(i, size) /\ is_ascii_whitespace(Byte(json, i))
    THEN skip_whitespace(json, i + 1, size)
    ELSE i

(***************************************************************************)
(* Scanner results: ret is "true" / "false" (the scanner's return value)   *)
(* or "panic" (an out-of-bounds index aborted it); index is the cursor the *)
(* scanner left; token is the caller's slot after the scanner.             *)
(***************************************************************************)
Ok(i, tok) == [ret |-> "true", index |-> i, token |-> tok]
Fail(i, tok) == [ret |-> "false", index |-> i, token |-> tok]
Panic(i, tok) == [ret |-> "panic", index |-> i, token |-> tok]

(***************************************************************************)
(* get_integer_num: [panic, index].  Line 149 reads json[*index] before    *)
(* any end-of-input test.                                                  *)
(***************************************************************************)
RECURSIVE digit_run(_, _, _)
digit_run(json, i, size) ==
    IF is_numeric(Byte(json, i)) /\ ~is_eof(i, size)
    THEN IF is_eof(i + 1, size) THEN i + 1 ELSE digit_run(json, i + 1, size)
    ELSE i

get_integer_num(json, i, size) ==
    IF i >= Len(json)
    THEN [panic |-> TRUE, index |-> i]
    ELSE [panic |-> FALSE, index |-> digit_run(json, i, size)]

(***************************************************************************)
(* The two library conversions load_number calls on the matched span.      *)
(* Values stay far below the i64 and f64 limits for the spans modelled     *)
(* (fewer than 10 digits), so the out-of-range failures do not arise.      *)
(***************************************************************************)
\* the first position q >= p of s that holds no ASCII digit (Len(s) + 1 if none)
RECURSIVE RunEnd(_, _)
RunEnd(s, p) ==
    IF p <= Len(s) /\ s[p] \in Digits THEN RunEnd(s, p + 1) ELSE p

\* the value of a run of decimal digits
RECURSIVE NatOf(_)
NatOf(s) ==
    IF s = <<>> THEN 0
    ELSE NatOf(SubSeq(s, 1, Len(s) - 1)) * 10 + DigitVal(s[Len(s)])

\* the position after the optional sign at p
SignEnd(s, p) == IF p <= Len(s) /\ s[p] \in {"+", "-"} THEN p + 1 ELSE p

\* a conversion's Result: Ok(v) or Err
Parsed(good, v) == [ok |-> good, value |-> v]

\* i64::from_str_radix(span, 10): an optional sign, then one or more digits
int_digits(s, p0, p1) ==
    IF p1 > p0 /\ p1 = Len(s) + 1
    THEN Parsed(TRUE, IF s[1] = "-" THEN 0 - NatOf(SubSeq(s, p0, p1 - 1))
                      ELSE NatOf(SubSeq(s, p0, p1 - 1)))
    ELSE Parsed(FALSE, 0)

ParseInt(s) == int_digits(s, SignEnd(s, 1), RunEnd(s, SignEnd(s, 1)))

\* a decimal m * 10^e in lowest terms: m has no trailing zero, and 0 is <<0, 0>>
RECURSIVE Normalize(_, _)
Normalize(m, e) ==
    IF m = 0 THEN <<0, 0>>
    ELSE IF m % 10 = 0 THEN Normalize(m \div 10, e + 1)
    ELSE <<m, e>>

\* str::parse::<f64>: [sign] digits* ['.' digits*] [(e|E) [sign] digits+], with
\* at least one digit before the exponent.  The value is the decimal the
\* literal denotes, as <<mantissa, exponent of ten>>.  The integer digits are
\* at p0 .. p1-1, the fraction digits (after the point at p1, if any) end
\* before p2, and the literal ends before pEnd.
float_value(s, p0, p1, p2, pEnd, expo) ==
    IF /\ (p1 - p0) + (IF p2 > p1 THEN p2 - p1 - 1 ELSE 0) >= 1
       /\ pEnd = Len(s) + 1
    THEN Parsed(TRUE,
                Normalize((IF s[1] = "-" THEN 0 - 1 ELSE 1)
                            * NatOf(SubSeq(s, p0, p1 - 1) \o SubSeq(s, p1 + 1, p2 - 1)),
                          expo - (IF p2 > p1 THEN p2 - p1 - 1 ELSE 0)))
    ELSE Parsed(FALSE, <<0, 0>>)

\* the exponent digits are at p3 .. p4-1, after the marker at p2
float_exponent(s, p0, p1, p2, p3, p4) ==
    IF p4 > p3
    THEN float_value(s, p0, p1, p2, p4,
                     (IF s[p2 + 1] = "-" THEN 0 - 1 ELSE 1)
                       * NatOf(SubSeq(s, p3, p4 - 1)))
    ELSE Parsed(FALSE, <<0, 0>>)

float_fraction(s, p0, p1, p2) ==
    IF p2 <= Len(s) /\ s[p2] \in {"e", "E"}
    THEN float_exponent(s, p0, p1, p2, SignEnd(s, p2 + 1),
                        RunEnd(s, SignEnd(s, p2 + 1)))
    ELSE float_value(s, p0, p1, p2, p2, 0)

float_integer(s, p0, p1) ==
    float_fraction(s, p0, p1,
                   IF p1 <= Len(s) /\ s[p1] = "." THEN RunEnd(s, p1 + 1) ELSE p1)

ParseFloat(s) == float_integer(s, SignEnd(s, 1), RunEnd(s, SignEnd(s, 1)))

(***************************************************************************)
(* load_number.                                                            *)
(***************************************************************************)
\* lines 209-216 and 222-229: the token of a parsed span, or failure
converted(i, parsed, type, new_token) ==
    IF parsed.ok THEN Ok(i, [type |-> type, value |-> parsed.value])
    ELSE Fail(i, new_token)

\* lines 205-230: the span token_start..i parsed as i64 (flt false) or f64
parse_span(json, token_start, i, flt, new_token) ==
    IF ~flt
    THEN converted(i, ParseInt(Slice(json, token_start, i)), "Number", new_token)
    ELSE converted(i, ParseFloat(Slice(json, token_start, i)), "Float", new_token)

\* lines 185-199: i is the offset just after the exponent marker
load_exponent(json, token_start, i, size, new_token) ==
    IF i >= Len(json) THEN Panic(i, new_token)
    ELSE
      LET ch == Byte(json, i)
          signed == ch = "-" \/ (ch = "+" /\ ~is_eof(i + 1, size))
          i2 == IF signed THEN i + 1 ELSE i
      IN  IF i2 >= Len(json) THEN Panic(i2, new_token)
          ELSE IF ~is_numeric(Byte(json, i2)) THEN Fail(i2, new_token)
          ELSE parse_span(json, token_start,
                          get_integer_num(json, i2, size).index, TRUE, new_token)

\* lines 176-201: i is the offset just after the decimal point
load_fraction(json, token_start, i, size, new_token) ==
    LET r == get_integer_num(json, i, size)
        i2 == r.index
    IN  IF r.panic THEN Panic(i2, new_token)
        ELSE IF is_eof(i2, size)
        THEN parse_span(json, token_start, i2, TRUE, new_token)
        ELSE
          LET ch == Byte(json, i2)
          IN  IF ch = "e" \/ (ch = "E" /\ ~is_eof(i2 + 1, size))
              THEN load_exponent(json, token_start, i2 + 1, size, new_token)
              ELSE parse_span(json, token_start, i2, TRUE, new_token)

load_number(json, i, size, new_token) ==
    LET token_start == i
        r == get_integer_num(json, i + 1, size)
        i1 == r.index
    IN  IF r.panic THEN Panic(i1, new_token)
        ELSE IF ~is_eof(i1, size) /\ Byte(json, i1) = "."
        THEN load_fraction(json, token_start, i1 + 1, size, new_token)
        ELSE parse_span(json, token_start, i1, FALSE, new_token)

(***************************************************************************)
(* load_string.                                                            *)
(***************************************************************************)
\* lines 242-253: the loop, entered with ch = json[i]; [ret, index, ch] with
\* ret "panic" when line 248 reads past the end
RECURSIVE str_contents(_, _, _, _, _)
str_contents(json, i, size, ch, ending_quote) ==
    IF ch # ending_quote /\ ~is_eof(i, size)
    THEN LET i1 == IF ch = "\\" THEN i + 1 ELSE i
         IN  IF ch # "\n"
             THEN IF i1 + 1 >= Len(json)
                  THEN [ret |-> "panic", index |-> i1 + 1, ch |-> ch]
                  ELSE str_contents(json, i1 + 1, size, Byte(json, i1 + 1),
                                    ending_quote)
             ELSE [ret |-> "break", index |-> i1, ch |-> ch]
    ELSE [ret |-> "done", index |-> i, ch |-> ch]

\* load_string with the closing quote kept in the payload
load_string_keeps_quote(json, i, size, new_token) ==
    LET ending_quote == Byte(json, i)
        token_start == i + 1
    IN  IF token_start >= Len(json) THEN Panic(token_start, new_token)
        ELSE
          LET r == str_contents(json, token_start, size,
                                Byte(json, token_start), ending_quote)
          IN  IF r.ret = "panic" THEN Panic(r.index, new_token)
              ELSE IF r.ch # "\n"
              THEN Ok(r.index + 1,
                      String(Slice(json, token_start, r.index + 1)))
              ELSE Fail(r.index, new_token)

load_string(json, i, size, new_token) ==
    LET ending_quote == Byte(json, i)
        token_start == i + 1
    IN  IF token_start >= Len(json) THEN Panic(token_start, new_token)
        ELSE
          LET r == str_contents(json, token_start, size,
                                Byte(json, token_start), ending_quote)
          IN  IF r.ret = "panic" THEN Panic(r.index, new_token)
              ELSE IF r.ch # "\n"
              THEN Ok(r.index + 1,
                      String(Slice(json, token_start, r.index)))
              ELSE Fail(r.index, new_token)

(***************************************************************************)
(* load_reserve and load_boolean_or_null.                                  *)
(***************************************************************************)
\* load_reserve that consumes the byte only when it is a structural symbol
load_reserve_stays_on_error(json, i, new_token) ==
    LET ch == Byte(json, i)
    IN  CASE ch = "{" -> Ok(i + 1, Reserve("OpenBrace"))
          [] ch = "}" -> Ok(i + 1, Reserve("CloseBrace"))
          [] ch = "[" -> Ok(i + 1, Reserve("OpenBracket"))
          [] ch = "]" -> Ok(i + 1, Reserve("CloseBracket"))
          [] ch = ":" -> Ok(i + 1, Reserve("Colon"))
          [] ch = "," -> Ok(i + 1, Reserve("Comma"))
          [] OTHER -> Fail(i, new_token)

load_reserve(json, i, new_token) ==
    LET ch == Byte(json, i)
    IN  CASE ch = "{" -> Ok(i + 1, Reserve("OpenBrace"))
          [] ch = "}" -> Ok(i + 1, Reserve("CloseBrace"))
          [] ch = "[" -> Ok(i + 1, Reserve("OpenBracket"))
          [] ch = "]" -> Ok(i + 1, Reserve("CloseBracket"))
          [] ch = ":" -> Ok(i + 1, Reserve("Colon"))
          [] ch = "," -> Ok(i + 1, Reserve("Comma"))
          [] OTHER -> Fail(i + 1, new_token)

true_token == <<"t", "r", "u", "e">>
false_token == <<"f", "a", "l", "s", "e">>
null_token == <<"n", "u", "l", "l">>

\* one of the three attempts: the bounds test, then the slice comparison
matches(json, i, size, word) ==
    /\ ~is_eof(i + Len(word), size)
    /\ Slice(json, i, i + Len(word)) = word

load_boolean_or_null(json, i, size, new_token) ==
    IF matches(json, i, size, true_token)
    THEN Ok(i + Len(true_token), Boolean(TRUE))
    ELSE IF matches(json, i, size, false_token)
    THEN Ok(i + Len(false_token), Boolean(FALSE))
    ELSE IF matches(json, i, size, null_token)
    THEN Ok(i + Len(null_token), Null)
    ELSE Fail(i, new_token)

(***************************************************************************)
(* JsonLexer::next_token as a function of the text, the cursor and the     *)
(* caller's slot: [ret, index, token], ret "panic" when the call aborted.  *)
(***************************************************************************)
\* lines 106-130: the dispatch on the byte at the cursor i < size
dispatch(json, i, size, tok) ==
    LET ch == Byte(json, i)
    IN  IF is_numeric(ch) \/ ch = "-"
        THEN load_number(json, i, size, tok)
        ELSE IF is_str_start(ch)
        THEN load_string(json, i, size, tok)
        ELSE LET kw == load_boolean_or_null(json, i, size, tok)
             IN  IF kw.ret = "true" THEN kw ELSE load_reserve(json, i, tok)

\* next_token without the Undefined store of the end-of-input branch
next_token_stale_eof(json, i, tok) ==
    LET size == Len(json)
        i0 == skip_whitespace(json, i, size)
    IN  IF is_eof(i0, size) THEN Ok(i0, tok)
        ELSE LET r == dispatch(json, i0, size, tok)
             IN  CASE r.ret = "panic" -> r
                   [] r.ret = "false" -> Ok(r.index, Undefined)
                   [] OTHER -> Ok(r.index, r.token)

\* next_token without the Undefined store after a failed scanner
next_token_keeps_failed(json, i, tok) ==
    LET size == Len(json)
        i0 == skip_whitespace(json, i, size)
    IN  IF is_eof(i0, size) THEN Ok(i0, Undefined)
        ELSE LET r == dispatch(json, i0, size, tok)
             IN  CASE r.ret = "panic" -> r
                   [] OTHER -> Ok(r.index, r.token)

\* next_token that rewinds to the start of the text after a failed scanner
next_token_rewinds_on_failure(json, i, tok) ==
    LET size == Len(json)
        i0 == skip_whitespace(json, i, size)
    IN  IF is_eof(i0, size) THEN Ok(i0, Undefined)
        ELSE LET r == dispatch(json, i0, size, tok)
             IN  CASE r.ret = "panic" -> r
                   [] r.ret = "false" -> Ok(0, Undefined)
                   [] OTHER -> Ok(r.index, r.token)

next_token(json, i, tok) ==
    LET size == Len(json)
        i0 == skip_whitespace(json, i, size)
    IN  IF is_eof(i0, size) THEN Ok(i0, Undefined)
        ELSE LET r == dispatch(json, i0, size, tok)
             IN  CASE r.ret = "panic" -> r
                   [] r.ret = "false" -> Ok(r.index, Undefined)
                   [] OTHER -> Ok(r.index, r.token)

\* reset with the cursor assignment left out
reset_keeps_cursor(i) == i

\* JsonLexer::reset: the cursor after the call
reset(i) == 0

(***************************************************************************)
(* The input texts.                                                        *)
(***************************************************************************)
RECURSIVE Flatten(_)
Flatten(ps) == IF ps = <<>> THEN <<>> ELSE Head(ps) \o Flatten(Tail(ps))

\* every sequence of at most n elements of S
SeqsUpTo(S, n) == UNION {[1..k -> S] : k \in 0..n}

\* one fragment for each scanner and each way out of it
Fragments ==
    {<<"1">>, <<"-">>, <<".">>, <<"e">>, <<"\"">>, <<"\\">>, <<"\n">>, <<" ">>,
     <<"{">>, <<",">>, true_token, false_token, null_token}

MixedTexts == {Flatten(ps) : ps \in SeqsUpTo(Fragments, MaxPieces)}

NumBytes == {"1", "0", "-", "+", ".", "e", "E"}

NumTexts == SeqsUpTo(NumBytes, MaxNumLen)

StrBytes == {"\"", "\\", "\n", "a", " "}

StrTexts == SeqsUpTo(StrBytes, MaxStrLen)

\* texts over the six structural symbols, an unknown byte and a space
SymBytes == {"{", "}", "[", "]", ":", ",", "@", " "}
SymTexts == SeqsUpTo(SymBytes, MaxSymLen)

(***************************************************************************)
(* The snake game.  A position is a tile <<x, y>> with x, y in             *)
(* -GridHalf..GridHalf: the game's coordinates are the tile numbers times  *)
(* tile_size, the head moves by one tile_size a step, and food is placed   *)
(* at x * tile_size, y * tile_size for x, y in lower_range..=upper_range.  *)
(* A direction is <<dx, dy>>.  next_segment_pos is None or Some(tile).     *)
(***************************************************************************)
None == <<>>
Some(tile) == <<tile>>

Tiles == (-GridHalf..GridHalf) \X (-GridHalf..GridHalf)

Keys == {"W", "S", "A", "D"}

\* spawn_segment: the food goes to the tile the random generator picks
spawn_segment(tile) == Some(tile)

\* check_collision: p within half a tile of sq on both axes (in half tiles)
check_collision(p, sq) ==
    /\ 2 * p[1] >= 2 * sq[1] - 1
    /\ 2 * p[1] <= 2 * sq[1] + 1
    /\ 2 * p[2] >= 2 * sq[2] - 1
    /\ 2 * p[2] <= 2 * sq[2] + 1

\* one coordinate of the head after the wrap at the board's edge
wrap(k) ==
    IF k > GridHalf THEN -GridHalf
    ELSE IF k < -GridHalf THEN GridHalf
    ELSE k

\* the head after one step in the direction
moved_head(head, direction) ==
    <<wrap(head[1] + direction[1]), wrap(head[2] + direction[2])>>

\* the segments after the step: each takes the place of the one before it
shift(p, head) ==
    [i \in 1..Len(p) |-> IF i = 1 THEN head ELSE p[i - 1]]

\* the segment loop sets game_over when the head is on a shifted segment
self_collision(p) ==
    \E i \in 2..Len(p) : check_collision(p[1], p[i])

\* the food check of the step; tail is the place the last segment left
eat(p, tail, food, tile) ==
    IF food = None
    THEN [pos |-> p, food |-> spawn_segment(tile)]
    ELSE IF check_collision(p[1], food[1])
    THEN [pos |-> Append(p, tail), food |-> spawn_segment(tile)]
    ELSE [pos |-> p, food |-> food]

handle_movement(p, direction, food, tile) ==
    [hit |-> self_collision(shift(p, moved_head(p[1], direction))),
     grown |-> eat(shift(p, moved_head(p[1], direction)), p[Len(p)],
                   food, tile)]

\* the movement test of update with the game_over test left out
movement_due_after_game_over(count, over) == count >= Speed

\* update: a movement step is due
movement_due(count, over) == count >= Speed /\ ~over

\* the four key checks of update with the reversal guard testing the
\* direction being set instead of the direction last moved in
new_input_checks_current(direction, len, last, input) ==
    LET w == IF "W" \in input /\ (len = 1 \/ direction[2] # -1)
             THEN <<0, 1>> ELSE direction
        s == IF "S" \in input /\ (len = 1 \/ w[2] # 1)
             THEN <<0, -1>> ELSE w
        a == IF "A" \in input /\ (len = 1 \/ s[1] # 1)
             THEN <<-1, 0>> ELSE s
    IN  IF "D" \in input /\ (len = 1 \/ a[1] # -1)
        THEN <<1, 0>> ELSE a

\* update: the four key checks, in the order W, S, A, D
new_input(direction, len, last, input) ==
    LET w == IF "W" \in input /\ (len = 1 \/ last[2] # -1)
             THEN <<0, 1>> ELSE direction
        s == IF "S" \in input /\ (len = 1 \/ last[2] # 1)
             THEN <<0, -1>> ELSE w
        a == IF "A" \in input /\ (len = 1 \/ last[1] # 1)
             THEN <<-1, 0>> ELSE s
    IN  IF "D" \in input /\ (len = 1 \/ last[1] # -1)
        THEN <<1, 0>> ELSE a

\* SnakeRenderPipeline::new
new_pipeline ==
    /\ pos = <<<<0, 0>>>>
    /\ movement_direction = <<0, 1>>
    /\ last_movement_direction = <<0, 0>>
    /\ update_count = 0
    /\ next_segment_pos = None
    /\ game_over = FALSE
    /\ step_dir = <<0, 0>>

(***************************************************************************)
(* The lexer and its caller.  token is the caller's output slot (Token's   *)
(* Default is Undefined); op is the last operation; scan holds the tokens  *)
(* produced since the cursor was last set to 0, and prev the longest scan  *)
(* completed before a reset.                                               *)
(***************************************************************************)
\* JsonLexer::from_raw_json
from_raw_json(texts) ==
    /\ json_text \in texts
    /\ index = 0
    /\ token = Undefined
    /\ crashed = FALSE
    /\ op = "new"
    /\ scan = <<>>
    /\ prev = <<>>

Init == from_raw_json(MixedTexts) /\ new_pipeline

InitNum == from_raw_json(NumTexts) /\ new_pipeline

InitStr == from_raw_json(StrTexts) /\ new_pipeline

InitSym == from_raw_json(SymTexts) /\ new_pipeline

\* the game alone: the lexer holds the empty text and is never called
InitSnake == from_raw_json({<<>>}) /\ new_pipeline

NextToken ==
    /\ ~crashed
    /\ Len(scan) < MaxCalls
    /\ LET r == next_token(json_text, index, token)
       IN  /\ index' = r.index
           /\ token' = r.token
           /\ crashed' = (r.ret = "panic")
           /\ scan' = IF r.ret = "panic" THEN scan ELSE Append(scan, r.token)
    /\ op' = "next_token"
    /\ UNCHANGED <<json_text, prev, snakeVars>>

Reset ==
    /\ ~crashed
    /\ index' = reset(index)
    /\ op' = "reset"
    /\ prev' = IF Len(scan) > Len(prev) THEN scan ELSE prev
    /\ scan' = <<>>
    /\ UNCHANGED <<json_text, token, crashed, snakeVars>>

Next == NextToken \/ Reset

\* the movement step of update: handle_movement, then the direction moved
\* in is kept; tile is where spawn_segment puts the food if it is called
MovementStep(tile) ==
    LET m == handle_movement(pos, movement_direction, next_segment_pos, tile)
    IN  /\ Len(m.grown.pos) <= MaxSegments
        /\ pos' = m.grown.pos
        /\ next_segment_pos' = m.grown.food
        /\ game_over' = (game_over \/ m.hit)
        /\ update_count' = 0
        /\ last_movement_direction' = movement_direction
        /\ step_dir' = movement_direction

\* the coming movement step calls spawn_segment
spawns(p, direction, food) ==
    \/ food = None
    \/ check_collision(moved_head(p[1], direction), food[1])

\* RenderPipelineHandler::update with the keys of input held or clicked
Update ==
    /\ update_count < Speed + MaxIdle
    /\ IF movement_due(update_count + 1, game_over)
       THEN IF spawns(pos, movement_direction, next_segment_pos)
            THEN \E tile \in Tiles : MovementStep(tile)
            ELSE MovementStep(pos[1])
       ELSE /\ update_count' = update_count + 1
            /\ UNCHANGED <<pos, next_segment_pos, game_over,
                           last_movement_direction, step_dir>>
    /\ \E input \in SUBSET Keys :
          movement_direction' =
              new_input(movement_direction, Len(pos'),
                        last_movement_direction', input)
    /\ op' = "update"
    /\ UNCHANGED <<json_text, index, token, crashed, scan, prev>>

Spec == Init /\ [][Next]_vars

SpecNum == InitNum /\ [][Next]_vars

SpecStr == InitStr /\ [][Next]_vars

SpecSym == InitSym /\ [][Next]_vars

SpecSnake == InitSnake /\ [][Update]_vars

(***************************************************************************)
(* Vocabulary of the claims.                                               *)
(***************************************************************************)
\* the state right after the first next_token call made from cursor 0
FirstCall ==
    /\ op = "next_token"
    /\ \/ ~crashed /\ Len(scan) = 1
       \/ crashed /\ scan = <<>>

\* JSON scalar literals and the token each denotes
LiteralCases ==
    {[text |-> <<"1">>, token |-> Number(1)],
     [text |-> <<"1", "1">>, token |-> Number(11)],
     [text |-> <<"-", "1">>, token |-> Number(0 - 1)],
     [text |-> <<"1", ".", "1">>, token |-> Float(<<11, 0 - 1>>)],
     [text |-> <<"\"", "\"">>, token |-> String(<<>>)],
     [text |-> <<"\"", "e", "\"">>, token |-> String(<<"e">>)],
     [text |-> true_token, token |-> Boolean(TRUE)],
     [text |-> false_token, token |-> Boolean(FALSE)],
     [text |-> null_token, token |-> Null]}

\* s is  -? digits+ (. digits+)?  followed from position p on by whatever
\* LitTail accepts; NumHead is the position after the integer part (0 if none)
NumHead(s) ==
    LET p0 == IF Len(s) >= 1 /\ s[1] = "-" THEN 2 ELSE 1
        p1 == RunEnd(s, p0)
    IN  IF p1 > p0 THEN p1 ELSE 0

\* the position after the optional fraction (. digits+) that starts at p
FracEnd(s, p) ==
    IF p <= Len(s) /\ s[p] = "." /\ RunEnd(s, p + 1) > p + 1
    THEN RunEnd(s, p + 1)
    ELSE p

\* the whole text is a JSON number literal
IsNumberLiteral(s) ==
    /\ NumHead(s) > 0
    /\ LET p2 == FracEnd(s, NumHead(s))
       IN  \/ p2 = Len(s) + 1
           \/ /\ p2 <= Len(s)
              /\ s[p2] \in {"e", "E"}
              /\ RunEnd(s, SignEnd(s, p2 + 1)) > SignEnd(s, p2 + 1)
              /\ RunEnd(s, SignEnd(s, p2 + 1)) = Len(s) + 1

HasFractionOrExponent(s) == \E k \in 1..Len(s) : s[k] \in {".", "e", "E"}

\* the text starts with a number whose exponent marker, after its optional
\* sign, is not followed by a digit
MalformedExponent(s) ==
    /\ NumHead(s) > 0
    /\ LET p2 == FracEnd(s, NumHead(s))
       IN  /\ p2 <= Len(s)
           /\ s[p2] \in {"e", "E"}
           /\ RunEnd(s, SignEnd(s, p2 + 1)) = SignEnd(s, p2 + 1)

\* the position of the first quote at or after p that is not skipped as an
\* escaped byte, 0 when the end of the text comes first
RECURSIVE ClosingQuote(_, _)
ClosingQuote(s, p) ==
    IF p > Len(s) THEN 0
    ELSE IF s[p] = "\"" THEN p
    ELSE IF s[p] = "\\" THEN ClosingQuote(s, p + 2)
    ELSE ClosingQuote(s, p + 1)

StartsWithQuote(s) == Len(s) >= 1 /\ s[1] = "\""

(***************************************************************************)
(* The claims.                                                             *)
(***************************************************************************)
\* C1: every next_token call completes without aborting: no byte is read at
\* an offset at or beyond the text length.
C1_NeverAborts == ~crashed

\* C2: from a text that is exactly one valid JSON scalar literal, the first
\* next_token call returns the token of the matching variant and value, also
\* when the literal ends at the last byte of the text.
C2_ScalarLiteral ==
    \A c \in LiteralCases :
        (json_text = c.text /\ FirstCall) => (~crashed /\ token = c.token)

\* C3: a number whose exponent marker, after its optional sign, is not
\* followed by a digit makes next_token yield Undefined (a call that aborted
\* is left to C1).
C3_MalformedExponent ==
    (FirstCall /\ ~crashed /\ MalformedExponent(json_text)) => token = Undefined

\* C4: a number literal is consumed whole, as Number when it has neither a
\* decimal point nor an exponent and as Float otherwise (a call that aborted
\* is left to C1).
C4_IntegerOrFloat ==
    (FirstCall /\ ~crashed /\ IsNumberLiteral(json_text)) =>
        /\ index = Len(json_text)
        /\ token.type = IF HasFractionOrExponent(json_text) THEN "Float"
                        ELSE "Number"

\* C5: with the cursor at an opening quote and the end of the text before a
\* closing quote, next_token yields Undefined.
C5_UnterminatedString ==
    (FirstCall /\ StartsWithQuote(json_text) /\ ClosingQuote(json_text, 2) = 0) =>
        (~crashed /\ token = Undefined)

\* C6: with the cursor at an opening quote and a newline byte anywhere before
\* the closing quote, escaped or not, next_token yields Undefined.
C6_MultilineString ==
    (/\ FirstCall
     /\ StartsWithQuote(json_text)
     /\ \E k \in 2..(ClosingQuote(json_text, 2) - 1) : json_text[k] = "\n") =>
        (~crashed /\ token = Undefined)

\* C7: a next_token call made with the cursor at or past the end of the text
\* yields Undefined and leaves the cursor where it is, however often repeated.
C7_EndOfInputIdempotent ==
    [][(is_eof(index, Len(json_text)) /\ op' = "next_token") =>
        (token' = Undefined /\ index' = index /\ ~crashed')]_vars

\* C7 witness: a token, then two calls at the end of the text
C7_Witness ==
    /\ op = "next_token"
    /\ Len(scan) >= 3
    /\ scan[1] # Undefined
    /\ index = Len(json_text)
    /\ scan[Len(scan) - 1] = Undefined
    /\ scan[Len(scan)] = Undefined

\* C8: the k tokens produced after a reset equal the first k tokens of every
\* scan made from cursor 0 before it.
C8_ResetReplays ==
    \A k \in 1..Len(scan) : k <= Len(prev) => scan[k] = prev[k]

\* C8 witness: a second scan that has replayed two differing tokens
C8_Witness ==
    /\ Len(prev) >= 2
    /\ Len(scan) >= 2
    /\ scan[1] # scan[2]
    /\ scan[2] # Undefined

\* C9: reset sets the cursor to 0 and changes nothing else, no operation
\* changes the text, and a second reset leaves the state of the first.
C9_ResetFrame ==
    [][/\ json_text' = json_text
       /\ op' = "reset" => (index' = 0 /\ token' = token /\ crashed' = crashed)
       /\ (op = "reset" /\ op' = "reset") => index' = index]_vars

\* C9 witness: a reset made after tokens were produced
C9_Witness ==
    /\ op = "reset"
    /\ index = 0
    /\ Len(prev) >= 2
    /\ token # Undefined

\* C10: next_token never lowers the cursor, whether it succeeds, fails or
\* finds the end of the text; only reset does.
C10_CursorMonotone == [][op' = "reset" \/ index' >= index]_vars

\* C10 witness: a failed scan and a successful one have both moved the cursor
C10_Witness ==
    /\ op = "next_token"
    /\ ~crashed
    /\ Len(scan) >= 3
    /\ scan[1] = Undefined
    /\ scan[2] # Undefined
    /\ scan[3] = Undefined
    /\ index = Len(json_text)

(***************************************************************************)
(* Vocabulary of the later claims.                                         *)
(***************************************************************************)
\* the next_token calls made since the cursor was last 0, the aborted one
\* included
Calls == Len(scan) + (IF crashed THEN 1 ELSE 0)

\* the bytes of s from position p on begin with word
Spells(s, p, word) ==
    /\ p + Len(word) - 1 <= Len(s)
    /\ SubSeq(s, p, p + Len(word) - 1) = word

Keywords ==
    {[word |-> true_token, token |-> Boolean(TRUE)],
     [word |-> false_token, token |-> Boolean(FALSE)],
     [word |-> null_token, token |-> Null]}

\* C11: every call made while input remains moves the cursor forward, so on
\* a text of n bytes the lexer is at the end of the input once n calls have
\* been made.
C11_ReachesEndOfInput ==
    (op = "next_token" /\ Calls >= Len(json_text)) =>
        (~crashed /\ is_eof(index, Len(json_text)))

\* C12: a String token's payload is the bytes strictly between the opening
\* quote and the first quote not skipped as an escaped byte, backslashes
\* kept, and the cursor ends right after that closing quote.
C12_StringPayload ==
    (FirstCall /\ ~crashed /\ StartsWithQuote(json_text) /\ token.type = "String") =>
        /\ ClosingQuote(json_text, 2) > 0
        /\ token.value = SubSeq(json_text, 2, ClosingQuote(json_text, 2) - 1)
        /\ index = ClosingQuote(json_text, 2)

\* C12 witness: a string whose payload is an escaped quote
C12_Witness ==
    /\ FirstCall
    /\ StartsWithQuote(json_text)
    /\ token = String(<<"\\", "\"">>)
    /\ index = 4

\* C13: where the bytes at the cursor spell true, false or null and that many
\* bytes remain, the keyword scanner produces the Boolean or Null token and
\* moves the cursor by the keyword's length; where none matches it leaves the
\* cursor and the token as they were.
C13_KeywordScanner ==
    /\ \A kw \in Keywords :
          Spells(json_text, index + 1, kw.word) =>
              load_boolean_or_null(json_text, index, Len(json_text), token)
                  = Ok(index + Len(kw.word), kw.token)
    /\ (\A kw \in Keywords : ~Spells(json_text, index + 1, kw.word)) =>
          load_boolean_or_null(json_text, index, Len(json_text), token)
              = Fail(index, token)

\* the cursor at which the next call starts scanning
ScanStart == skip_whitespace(json_text, index, Len(json_text))

\* the byte at position i of s is handed to the structural scanner
ReachesReserve(s, i) ==
    /\ ~is_eof(i, Len(s))
    /\ ~is_numeric(Byte(s, i))
    /\ Byte(s, i) # "-"
    /\ ~is_str_start(Byte(s, i))
    /\ \A kw \in Keywords : ~Spells(s, i + 1, kw.word)

SymbolToken(b) ==
    CASE b = "{" -> Reserve("OpenBrace")
      [] b = "}" -> Reserve("CloseBrace")
      [] b = "[" -> Reserve("OpenBracket")
      [] b = "]" -> Reserve("CloseBracket")
      [] b = ":" -> Reserve("Colon")
      [] b = "," -> Reserve("Comma")
      [] OTHER -> Undefined

\* C14: a call that reaches the structural scanner consumes exactly one byte;
\* the six symbols give their Reserve token and any other byte gives
\* Undefined, the cursor one past it.
C14_StructuralScanner ==
    [][(op' = "next_token" /\ ReachesReserve(json_text, ScanStart)) =>
          /\ ~crashed'
          /\ index' = ScanStart + 1
          /\ token' = SymbolToken(Byte(json_text, ScanStart))]_vars

\* C14 witness: ":@]" scanned as Colon, Undefined, CloseBracket
C14_Witness ==
    /\ json_text = <<":", "@", "]">>
    /\ scan = <<Reserve("Colon"), Undefined, Reserve("CloseBracket")>>
    /\ index = 3

\* the first k bytes of s are ASCII whitespace
WhitespaceRun(s, k) ==
    /\ k <= Len(s)
    /\ \A j \in 1..k : is_ascii_whitespace(s[j])

\* the outcome r of a call is the outcome (i, tok, cr) seen in the lexer
AgreesWith(r, i, tok, cr) ==
    /\ (r.ret = "panic") = cr
    /\ ~cr => (r.index = i /\ r.token = tok)

\* C15: leading whitespace is transparent: the first call on w \o t, w a run
\* of ASCII whitespace, gives the token of the first call on t and a cursor
\* at the same offset relative to t.
C15_LeadingWhitespace ==
    FirstCall =>
        \A k \in 1..Len(json_text) :
            WhitespaceRun(json_text, k) =>
                AgreesWith(next_token(SubSeq(json_text, k + 1, Len(json_text)),
                                      0, Undefined),
                           index - k, token, crashed)

\* C15 witness: an opening brace found behind a space and a newline
C15_Witness ==
    /\ FirstCall
    /\ json_text = <<" ", "\n", "{">>
    /\ token = Reserve("OpenBrace")
    /\ index = 3

\* contents a caller's token slot may hold before a call
SlotValues ==
    {Undefined, Null, Boolean(TRUE), Number(7), String(<<"x">>),
     Reserve("Comma")}

\* C16: the token after a call is a function of the text and the cursor, not
\* of what the slot held before, and a failed scan leaves Undefined.
C16_TokenFromTextAndCursor ==
    [][op' = "next_token" =>
          /\ \A t0 \in SlotValues :
                AgreesWith(next_token(json_text, index, t0),
                           index', token', crashed')
          /\ (/\ ~is_eof(ScanStart, Len(json_text))
              /\ dispatch(json_text, ScanStart, Len(json_text), token).ret
                     = "false") => token' = Undefined]_vars

\* C16 witness: a failed scan of a backslash right after a token was found
C16_Witness ==
    /\ op = "next_token"
    /\ ~crashed
    /\ Len(scan) = 2
    /\ scan[1] = Reserve("OpenBrace")
    /\ scan[2] = Undefined
    /\ index = 2
    /\ json_text[2] = "\\"

\* C17: the cursor is never negative and never beyond the end of the text.
C17_CursorInBounds ==
    0 <= index /\ index <= Len(json_text)

\* the coming update runs a movement step that calls spawn_segment
Spawns ==
    /\ movement_due(update_count + 1, game_over)
    /\ spawns(pos, movement_direction, next_segment_pos)

Opposite(direction) == <<-direction[1], -direction[2]>>

\* C18: food placed by spawn_segment is on no segment of the snake.
C18_FoodOffSnake ==
    [][(op' = "update" /\ Spawns) =>
          \A i \in 1..Len(pos') : pos'[i] # next_segment_pos'[1]]_vars

\* C19: a movement step that starts with more than one segment goes in the
\* direction set by the keys, and that is not the exact opposite of the
\* direction of the movement step before it.
C19_NoReversal ==
    [][(/\ op' = "update"
        /\ movement_due(update_count + 1, game_over)
        /\ Len(pos) > 1) =>
          (step_dir' = movement_direction /\ step_dir' # Opposite(step_dir))]_vars

\* C19 witness: a snake of three or more segments has just turned left after
\* a step up
C19_Witness ==
    /\ op = "update"
    /\ update_count = 0
    /\ Len(pos) >= 3
    /\ step_dir = <<-1, 0>>
    /\ pos[1] = moved_head(pos[2], <<-1, 0>>)
    /\ pos[2] = moved_head(pos[3], <<0, 1>>)

\* C20: game_over is never cleared, and once it is set no update changes
\* the segments, their number or the food.
C20_GameOverAbsorbing ==
    [][game_over =>
          /\ game_over'
          /\ pos' = pos
          /\ next_segment_pos' = next_segment_pos]_vars

\* C20 witness: updates went on after the game was over, past the count at
\* which a movement step is due
C20_Witness ==
    /\ game_over
    /\ op = "update"
    /\ update_count > Speed

====
